---------------------------- MODULE Spec2Model ----------------------------
(***************************************************************************)
(* A state-machine model of Talos' World orchestrator                      *)
(* (Source/World/World.cpp): the network role held in m_network, the       *)
(* world lifecycle (init / destroy / resume / update), the entity pool     *)
(* with the ID -> entity map, the component factory behind                 *)
(* attachComponent<K>, and the PhysicsSystem (Source/System/               *)
(* PhysicsSystem.cpp) that copies rigid-actor poses to scene components.   *)
(*                                                                         *)
(* One World call is one step.  A call that dereferences a null pointer    *)
(* ends the process (status = "crashed"); a call stopped by the Assert     *)
(* macro ends it with status = "aborted".  No call is made on an ended     *)
(* process.                                                                *)
(*                                                                         *)
(* EntityPool, Entity, ComponentFactory, SystemManager, PScene,            *)
(* NullNetwork, Client and the bodies of Server::init / Server::destroy    *)
(* are called by World.cpp but defined elsewhere; the operators that stand *)
(* for them follow the design specification (sections 3, 4.1 - 4.4, 7).    *)
(***************************************************************************)
EXTENDS Integers, Sequences, FiniteSets

\* ------------------------------------------------------------------ bounds

\* Capacity handed to the EntityPool constructor (256 in World::init).
PoolSize == 2

\* Capacity of each typed component pool of the ComponentFactory.
CompPoolSize == 2

\* Number of createEntity calls followed per pool (caps the ID counter).
MaxCreates == 4

\* Number of components followed as allocated at one time, over all kinds.
MaxAttach == 2

\* Largest pose value followed for a rigid actor (poses are 0 .. MaxPose).
MaxPose == 1

\* ------------------------------------------------------------- vocabulary

\* Component kinds with an attachComponent<K> specialisation.
Kinds == {"Actor", "Camera", "Light", "Model", "Physics", "Scene"}

\* Pointer values: 0 is nullptr, a positive number indexes the current pool,
\* Dangling points into a pool that a later World::init has deleted.
NullPtr == 0
Dangling == 0 - 1

\* The ID a pool slot carries before its first allocation.
NoID == 0

\* Values of m_network.
NetNullPtr == "nullptr"
SNullNetwork == "SNullNetwork"
ServerRole == "m_server"
ClientRole == "m_client"

VARIABLES
    status,             \* "running" | "aborted" (Assert) | "crashed" (null dereference)
    call,               \* the most recent World call: [op, arg, argState, kind, ret]
    scenario,           \* progress through initServer, destroyServer, initClient
    tick,               \* phases run by the most recent World::update, in order
    m_root,             \* injected Ogre root: "nullptr" | "root"
    m_scene,            \* "nullptr" | "created" | "destroyed"
    m_environment,      \* "nullptr" | "initialized" | "destroyed"
    m_usePhysics,       \* BOOLEAN
    m_PScene,           \* "nullptr" | "initialized" | "destroyed"
    m_network,          \* NetNullPtr | SNullNetwork | ServerRole | ClientRole
    m_server,           \* the Server object: [m_initialized]
    m_client,           \* the Client object: [m_initialized]
    m_poolSize,         \* m_entityPool->m_poolSize; 0 while m_entityPool is nullptr
    m_pool,             \* m_entityPool->m_pool: slot -> [inUse, live, id, comps]
    nextID,             \* the pool's next fresh entity ID
    m_entityIDMap,      \* ID -> slot
    m_componentFactory, \* kind -> set of allocated components of that pool
    m_player,           \* slot of the player entity, NullPtr or Dangling
    m_hasPlayer,        \* BOOLEAN
    m_mainCameraC,      \* camera component of the player, NullPtr or Dangling
    m_systems,          \* BOOLEAN: the PhysicsSystem is registered with m_systemManager
    m_entities,         \* PhysicsSystem::m_entities: the entity handles it tracks
    actorPose,          \* physics component -> global pose of its rigid actor
    scenePose,          \* scene component -> its position and orientation
    steps,              \* steps of the most recent attachComponent<K>, in order
    scanned,            \* slots the most recent update called Entity::update on, in order
    lastUsePhysics,     \* the usePhysics argument of the most recent World::init
    m_movingBackward,   \* actor component -> its moving-backward flag
    priorFlag           \* {flag of the target before the execute of the most recent
                        \* execute / unexecute pair}, {} when the last command call ended no pair

lifeVars == <<m_root, m_scene, m_environment>>
physVars == <<m_usePhysics, m_PScene>>
netVars == <<m_network, m_server, m_client>>
poolVars == <<m_poolSize, m_pool, nextID>>
playerVars == <<m_player, m_hasPlayer, m_mainCameraC>>
sysVars == <<m_systems, m_entities>>
poseVars == <<actorPose, scenePose>>
cmdVars == <<m_movingBackward, priorFlag>>
extVars == <<sysVars, poseVars, steps, scanned, lastUsePhysics, cmdVars>>
vars == <<status, call, scenario, tick, lifeVars, physVars, netVars, poolVars,
          m_entityIDMap, m_componentFactory, playerVars, extVars>>

Running == status = "running"

\* ---------------------------------------------------------------- helpers

\* Progress of the role scenario "Disabled, initServer, destroyServer,
\* initClient": 1, 2, 3 after its first, second and third call, 0 otherwise.
NextScenario(op) ==
    IF op = "initServer" /\ m_network = SNullNetwork THEN 1
    ELSE IF op = "destroyServer" /\ scenario = 1 THEN 2
    ELSE IF op = "initClient" /\ scenario = 2 THEN 3
    ELSE 0

\* What an entity handle refers to when a call is made with it: a live
\* entity, a destroyed entity whose slot the pool has not taken back, a free
\* slot, or no slot of the pool at all.
HandleState(e) ==
    IF e \notin 1 .. m_poolSize THEN "none"
    ELSE IF m_pool[e].live THEN "live"
    ELSE IF m_pool[e].inUse THEN "dead"
    ELSE "free"

\* Bookkeeping of a call: what was called, with what (and what the handle
\* referred to at that moment), and what it returned.
Called(op, arg, kind, ret) ==
    /\ call' = [op |-> op, arg |-> arg, argState |-> HandleState(arg),
                kind |-> kind, ret |-> ret]
    /\ scenario' = NextScenario(op)

\* A call that dereferences nullptr: the process ends, nothing else changes.
Crash(op, arg, kind) ==
    /\ status' = "crashed"
    /\ Called(op, arg, kind, NullPtr)
    /\ UNCHANGED <<extVars, tick, lifeVars, physVars, netVars, poolVars,
                   m_entityIDMap, m_componentFactory, playerVars>>

\* A call stopped by a failed Assert: fatal, nothing else changes.
FatalGuard(op) ==
    /\ status' = "aborted"
    /\ Called(op, NullPtr, "", NullPtr)
    /\ UNCHANGED <<extVars, tick, lifeVars, physVars, netVars, poolVars,
                   m_entityIDMap, m_componentFactory, playerVars>>

\* Network::initialized() of the role `role` (Server::initialized returns
\* m_initialized; the Disabled role never reports initialized).
initialized(role) ==
    CASE role = ServerRole -> m_server.m_initialized
      [] role = ClientRole -> m_client.m_initialized
      [] OTHER -> FALSE

\* Server::init / Client::init: the role's connection is up.
NetInit(role) ==
    /\ m_server' = IF role = ServerRole THEN [m_initialized |-> TRUE] ELSE m_server
    /\ m_client' = IF role = ClientRole THEN [m_initialized |-> TRUE] ELSE m_client

\* Network::destroy of the role `role`: its connection state is torn down;
\* on the Disabled role it does nothing.
NetDestroy(role) ==
    /\ m_server' = IF role = ServerRole THEN [m_initialized |-> FALSE] ELSE m_server
    /\ m_client' = IF role = ClientRole THEN [m_initialized |-> FALSE] ELSE m_client

\* A pool slot that holds no entity.  inUse: the pool has handed the slot
\* out and not taken it back; live: the slot holds an entity that has been
\* created and not destroyed.
FreeEntity(id) ==
    [inUse |-> FALSE, live |-> FALSE, id |-> id, comps |-> [k \in Kinds |-> NullPtr]]

Slots == 1 .. m_poolSize
LiveSlots == {s \in Slots : m_pool[s].live}
FreeSlots == {s \in Slots : ~m_pool[s].inUse}

\* std::unordered_map::erase(key) and operator[] assignment.
MapErase(map, id) == [i \in DOMAIN map \ {id} |-> map[i]]
MapPut(map, id, e) == [i \in DOMAIN map \cup {id} |-> IF i = id THEN e ELSE map[i]]


\* ------------------------------------------------------------ construction

\* World::World: every pointer member null, no physics, no player.  The
\* Server and Client objects exist (uninitialized) but are not yet injected.
Init ==
    /\ status = "running"
    /\ call = [op |-> "World", arg |-> NullPtr, argState |-> "none",
               kind |-> "", ret |-> NullPtr]
    /\ scenario = 0
    /\ tick = <<>>
    /\ m_root = "nullptr"
    /\ m_scene = "nullptr"
    /\ m_environment = "nullptr"
    /\ m_usePhysics = FALSE
    /\ m_PScene = "nullptr"
    /\ m_network = NetNullPtr
    /\ m_server = [m_initialized |-> FALSE]
    /\ m_client = [m_initialized |-> FALSE]
    /\ m_poolSize = 0
    /\ m_pool = <<>>
    /\ nextID = 1
    /\ m_entityIDMap = <<>>
    /\ m_componentFactory = [k \in Kinds |-> {}]
    /\ m_player = NullPtr
    /\ m_hasPlayer = FALSE
    /\ m_mainCameraC = NullPtr
    /\ m_systems = FALSE
    /\ m_entities = {}
    /\ actorPose = [c \in 1 .. CompPoolSize |-> 0]
    /\ scenePose = [c \in 1 .. CompPoolSize |-> 0]
    /\ steps = <<>>
    /\ scanned = <<>>
    /\ lastUsePhysics = FALSE
    /\ m_movingBackward = [c \in 1 .. CompPoolSize |-> FALSE]
    /\ priorFlag = {}

\* World::injectDependencies: the root, viewport, physics, input, server and
\* client handles are stored.
injectDependencies ==
    /\ Running
    /\ m_root' = "root"
    /\ status' = status
    /\ Called("injectDependencies", NullPtr, "", NullPtr)
    /\ UNCHANGED <<extVars, tick, m_scene, m_environment, physVars, netVars, poolVars,
                   m_entityIDMap, m_componentFactory, playerVars>>

\* ---------------------------------------------------------------- lifecycle

\* World::initPhysics: a new physics scene, and physics is switched on.
initPhysics ==
    /\ m_PScene' = "initialized"
    /\ m_usePhysics' = TRUE

\* A pointer into the entity pool or the component factory after World::init
\* has replaced them: null stays null, anything else dangles.
Stale(ptr) == IF ptr = NullPtr THEN NullPtr ELSE Dangling

\* World::init that allocates the pool one slot too large.
init_OneSlotMore(usePhysics) ==
    /\ Running
    /\ IF m_root = "nullptr"
       THEN Crash("init", NullPtr, "")
       ELSE /\ m_scene' = "created"
            /\ m_environment' = "initialized"
            /\ IF usePhysics THEN initPhysics ELSE UNCHANGED physVars
            /\ m_poolSize' = PoolSize + 1
            /\ m_pool' = [s \in 1 .. PoolSize + 1 |-> FreeEntity(NoID)]
            /\ nextID' = 1
            /\ m_componentFactory' = [k \in Kinds |-> {}]
            /\ m_network' = IF initialized(ServerRole) THEN ServerRole
                            ELSE IF initialized(ClientRole) THEN ClientRole
                            ELSE SNullNetwork
            /\ m_entityIDMap' = [i \in DOMAIN m_entityIDMap |-> Dangling]
            /\ m_player' = Stale(m_player)
            /\ m_mainCameraC' = Stale(m_mainCameraC)
            /\ status' = status
            /\ m_systems' = FALSE
            /\ m_entities' = {}
            /\ actorPose' = [c \in 1 .. CompPoolSize |-> 0]
            /\ scenePose' = [c \in 1 .. CompPoolSize |-> 0]
            /\ lastUsePhysics' = usePhysics
            /\ m_movingBackward' = [c \in 1 .. CompPoolSize |-> FALSE]
            /\ priorFlag' = priorFlag
            /\ Called("init", NullPtr, "", NullPtr)
            /\ UNCHANGED <<steps, scanned, tick, m_root, m_server, m_client, m_hasPlayer>>

\* World::init(usePhysics): scene and environment are created, physics is
\* set up on request, the entity pool, the component factory and the system
\* manager are allocated afresh, and m_network is pointed at the server if
\* it is initialized, else at the client if it is, else at the null network.
\* The new system manager has no system registered, and the new factory has
\* handed out no component.
\* m_entityIDMap, m_player and m_mainCameraC are not touched, so what they
\* held now points into the deleted pool.
init(usePhysics) ==
    /\ Running
    /\ IF m_root = "nullptr"
       THEN Crash("init", NullPtr, "")
       ELSE /\ m_scene' = "created"
            /\ m_environment' = "initialized"
            /\ IF usePhysics THEN initPhysics ELSE UNCHANGED physVars
            /\ m_poolSize' = PoolSize
            /\ m_pool' = [s \in 1 .. PoolSize |-> FreeEntity(NoID)]
            /\ nextID' = 1
            /\ m_componentFactory' = [k \in Kinds |-> {}]
            /\ m_network' = IF initialized(ServerRole) THEN ServerRole
                            ELSE IF initialized(ClientRole) THEN ClientRole
                            ELSE SNullNetwork
            /\ m_entityIDMap' = [i \in DOMAIN m_entityIDMap |-> Dangling]
            /\ m_player' = Stale(m_player)
            /\ m_mainCameraC' = Stale(m_mainCameraC)
            /\ status' = status
            /\ m_systems' = FALSE
            /\ m_entities' = {}
            /\ actorPose' = [c \in 1 .. CompPoolSize |-> 0]
            /\ scenePose' = [c \in 1 .. CompPoolSize |-> 0]
            /\ lastUsePhysics' = usePhysics
            /\ m_movingBackward' = [c \in 1 .. CompPoolSize |-> FALSE]
            /\ priorFlag' = priorFlag
            /\ Called("init", NullPtr, "", NullPtr)
            /\ UNCHANGED <<steps, scanned, tick, m_root, m_server, m_client, m_hasPlayer>>

\* Entity::destroy(world) on every slot of the pool: each entity is
\* destroyed, its components with it.  The slots are not handed back to the
\* pool.
DestroyAllEntities ==
    /\ m_pool' = [s \in Slots |->
                     [m_pool[s] EXCEPT !.live = FALSE, !.comps = [k \in Kinds |-> NullPtr]]]
    /\ m_componentFactory' = [k \in Kinds |-> {}]

\* World::destroy without m_entityIDMap.clear().
destroy_KeepsMap ==
    /\ Running
    /\ IF m_environment = "nullptr"
       THEN Crash("destroy", NullPtr, "")
       ELSE \/ /\ \/ m_scene = "destroyed"
                  \/ m_usePhysics /\ m_PScene = "destroyed"
               /\ Crash("destroy", NullPtr, "")
            \/ /\ m_environment' = "destroyed"
               /\ DestroyAllEntities
               /\ m_entityIDMap' = m_entityIDMap
               /\ m_PScene' = IF m_usePhysics THEN "destroyed" ELSE m_PScene
               /\ m_scene' = "destroyed"
               /\ status' = status
               /\ Called("destroy", NullPtr, "", NullPtr)
               /\ UNCHANGED <<extVars, tick, m_root, m_usePhysics, netVars, m_poolSize,
                              nextID, playerVars>>

\* World::destroy: the environment is destroyed, every pool slot is
\* destroyed, the ID map is cleared, the physics scene is destroyed if
\* m_usePhysics, and the Ogre scene is destroyed.  Called a second time it
\* works on a scene manager that is already gone, and with m_usePhysics left
\* set by an earlier init it destroys a physics scene that is already
\* destroyed: the call may crash or go through.
destroy ==
    /\ Running
    /\ IF m_environment = "nullptr"
       THEN Crash("destroy", NullPtr, "")
       ELSE \/ /\ \/ m_scene = "destroyed"
                  \/ m_usePhysics /\ m_PScene = "destroyed"
               /\ Crash("destroy", NullPtr, "")
            \/ /\ m_environment' = "destroyed"
               /\ DestroyAllEntities
               /\ m_entityIDMap' = <<>>
               /\ m_PScene' = IF m_usePhysics THEN "destroyed" ELSE m_PScene
               /\ m_scene' = "destroyed"
               /\ status' = status
               /\ Called("destroy", NullPtr, "", NullPtr)
               /\ UNCHANGED <<extVars, tick, m_root, m_usePhysics, netVars, m_poolSize,
                              nextID, playerVars>>

\* World::resume that leaves the active role as it is.
resume_KeepsRole ==
    /\ Running
    /\ IF m_mainCameraC = NullPtr \/ m_environment = "nullptr"
       THEN Crash("resume", NullPtr, "")
       ELSE \/ /\ m_mainCameraC = Dangling
               /\ Crash("resume", NullPtr, "")
            \/ /\ m_network' = m_network
               /\ status' = status
               /\ Called("resume", NullPtr, "", NullPtr)
               /\ UNCHANGED <<extVars, tick, lifeVars, physVars, m_server, m_client, poolVars,
                              m_entityIDMap, m_componentFactory, playerVars>>

\* World::resume: the viewport is given the main camera, the environment
\* resumes, and an active role that is not initialized is replaced by the
\* null network.  Without a main camera the first line dereferences nullptr;
\* with a dangling one the call may crash or go through.
resume ==
    /\ Running
    /\ IF m_mainCameraC = NullPtr \/ m_environment = "nullptr"
       THEN Crash("resume", NullPtr, "")
       ELSE \/ /\ m_mainCameraC = Dangling
               /\ Crash("resume", NullPtr, "")
            \/ /\ m_network' = IF m_network # NetNullPtr /\ ~initialized(m_network)
                               THEN SNullNetwork ELSE m_network
               /\ status' = status
               /\ Called("resume", NullPtr, "", NullPtr)
               /\ UNCHANGED <<extVars, tick, lifeVars, physVars, m_server, m_client, poolVars,
                              m_entityIDMap, m_componentFactory, playerVars>>

\* World::update with the physics step taken whatever m_usePhysics says.
UpdatePhases_PhysicsAlways ==
    <<"network", "systems", "entities", "physics", "environment">>

\* The phases one World::update runs, in order.
UpdatePhases ==
    <<"network", "systems", "entities">>
        \o (IF m_usePhysics THEN <<"physics">> ELSE <<>>)
        \o <<"environment">>

\* Poses a rigid actor can be reported at.
Poses == 0 .. MaxPose

\* PhysicsSystem::update meets a tracked entity whose getComponent returns
\* nullptr for the physics or the scene component: physicsC->getRigidActor()
\* or sceneC->setPosition() dereferences it.
MissingComponent ==
    /\ m_systems
    /\ \E e \in m_entities : \/ m_pool[e].comps["Physics"] = NullPtr
                             \/ m_pool[e].comps["Scene"] = NullPtr

\* PhysicsSystem::update: for every tracked entity, the global pose of its
\* rigid actor is read and written to its scene component as position and
\* orientation.
PhysicsSystem_update ==
    [c \in 1 .. CompPoolSize |->
        IF m_systems /\ \E e \in m_entities : m_pool[e].comps["Scene"] = c
        THEN actorPose[m_pool[CHOOSE e \in m_entities :
                                 m_pool[e].comps["Scene"] = c].comps["Physics"]]
        ELSE scenePose[c]]

\* The system, entity and physics phases of World::update, in the order of
\* the code: m_systemManager->update() copies the poses the actors have,
\* and m_PScene->simulate() then moves every actor of the physics scene to
\* the pose np gives it.
EntitiesThenPhysics(np) ==
    /\ scenePose' = PhysicsSystem_update
    /\ actorPose' = [c \in 1 .. CompPoolSize |->
                        IF m_usePhysics /\ c \in m_componentFactory["Physics"]
                        THEN np[c] ELSE actorPose[c]]

\* The slots the loop "for i < m_poolSize: m_pool[i].update(*this)" calls
\* Entity::update on, in order.
EntityScan == [i \in 1 .. m_poolSize |-> i]

\* World::update: network update, system-manager update, Entity::update on
\* every pool slot, PScene::simulate if m_usePhysics, environment update.
\* Simulating a physics scene that World::destroy has destroyed may crash or
\* go through.
update ==
    /\ Running
    /\ IF m_network = NetNullPtr \/ MissingComponent
       THEN Crash("update", NullPtr, "")
       ELSE \/ /\ m_usePhysics /\ m_PScene = "destroyed"
               /\ Crash("update", NullPtr, "")
            \/ /\ tick' = UpdatePhases
               /\ \E np \in [m_componentFactory["Physics"] -> Poses] :
                     EntitiesThenPhysics(np)
               /\ scanned' = EntityScan
               /\ status' = status
               /\ Called("update", NullPtr, "", NullPtr)
               /\ UNCHANGED <<lifeVars, physVars, netVars, poolVars,
                              m_entityIDMap, m_componentFactory, playerVars,
                              sysVars, steps, lastUsePhysics, cmdVars>>

\* ------------------------------------------------------------ network role

\* World::initServer: guarded by Assert(m_network->initialized() == false);
\* then m_network is the server and the server is initialized.
initServer ==
    /\ Running
    /\ IF m_network = NetNullPtr
       THEN Crash("initServer", NullPtr, "")
       ELSE IF initialized(m_network)
       THEN FatalGuard("initServer")
       ELSE /\ m_network' = ServerRole
            /\ NetInit(ServerRole)
            /\ status' = status
            /\ Called("initServer", NullPtr, "", NullPtr)
            /\ UNCHANGED <<extVars, tick, lifeVars, physVars, poolVars,
                           m_entityIDMap, m_componentFactory, playerVars>>

\* World::destroyServer that destroys the role but leaves m_network on it.
destroyServer_KeepsRole ==
    /\ Running
    /\ IF m_network = NetNullPtr
       THEN Crash("destroyServer", NullPtr, "")
       ELSE /\ NetDestroy(m_network)
            /\ m_network' = m_network
            /\ status' = status
            /\ Called("destroyServer", NullPtr, "", NullPtr)
            /\ UNCHANGED <<extVars, tick, lifeVars, physVars, poolVars,
                           m_entityIDMap, m_componentFactory, playerVars>>

\* World::destroyServer: the active role is destroyed, then the null
\* network is installed.
destroyServer ==
    /\ Running
    /\ IF m_network = NetNullPtr
       THEN Crash("destroyServer", NullPtr, "")
       ELSE /\ NetDestroy(m_network)
            /\ m_network' = SNullNetwork
            /\ status' = status
            /\ Called("destroyServer", NullPtr, "", NullPtr)
            /\ UNCHANGED <<extVars, tick, lifeVars, physVars, poolVars,
                           m_entityIDMap, m_componentFactory, playerVars>>

\* World::initClient without its guard.
initClient_NoGuard ==
    /\ Running
    /\ IF m_network = NetNullPtr
       THEN Crash("initClient", NullPtr, "")
       ELSE /\ m_network' = ClientRole
            /\ NetInit(ClientRole)
            /\ status' = status
            /\ Called("initClient", NullPtr, "", NullPtr)
            /\ UNCHANGED <<extVars, tick, lifeVars, physVars, poolVars,
                           m_entityIDMap, m_componentFactory, playerVars>>

\* World::initClient: the same guard; then m_network is the client and the
\* client is initialized.
initClient ==
    /\ Running
    /\ IF m_network = NetNullPtr
       THEN Crash("initClient", NullPtr, "")
       ELSE IF initialized(m_network)
       THEN FatalGuard("initClient")
       ELSE /\ m_network' = ClientRole
            /\ NetInit(ClientRole)
            /\ status' = status
            /\ Called("initClient", NullPtr, "", NullPtr)
            /\ UNCHANGED <<extVars, tick, lifeVars, physVars, poolVars,
                           m_entityIDMap, m_componentFactory, playerVars>>

\* World::destroyClient with its two lines swapped: the null network is
\* installed first, and destroy() then reaches the null network.
destroyClient_InstallsFirst ==
    /\ Running
    /\ IF m_network = NetNullPtr
       THEN Crash("destroyClient", NullPtr, "")
       ELSE /\ m_network' = SNullNetwork
            /\ NetDestroy(SNullNetwork)
            /\ status' = status
            /\ Called("destroyClient", NullPtr, "", NullPtr)
            /\ UNCHANGED <<extVars, tick, lifeVars, physVars, poolVars,
                           m_entityIDMap, m_componentFactory, playerVars>>

\* World::destroyClient: the same two lines as destroyServer.
destroyClient ==
    /\ Running
    /\ IF m_network = NetNullPtr
       THEN Crash("destroyClient", NullPtr, "")
       ELSE /\ NetDestroy(m_network)
            /\ m_network' = SNullNetwork
            /\ status' = status
            /\ Called("destroyClient", NullPtr, "", NullPtr)
            /\ UNCHANGED <<extVars, tick, lifeVars, physVars, poolVars,
                           m_entityIDMap, m_componentFactory, playerVars>>

\* Server::init or Client::init called on the injected object by another
\* holder of the shared pointer (the engine, another state's World).
SharedInit(role) ==
    /\ Running
    /\ ~initialized(role)
    /\ NetInit(role)
    /\ status' = status
    /\ Called("Network::init", NullPtr, role, NullPtr)
    /\ UNCHANGED <<extVars, tick, lifeVars, physVars, m_network, poolVars,
                   m_entityIDMap, m_componentFactory, playerVars>>

\* Server::destroy or Client::destroy called on the injected object by
\* another holder of the shared pointer.
SharedDestroy(role) ==
    /\ Running
    /\ initialized(role)
    /\ NetDestroy(role)
    /\ status' = status
    /\ Called("Network::destroy", NullPtr, role, NullPtr)
    /\ UNCHANGED <<extVars, tick, lifeVars, physVars, m_network, poolVars,
                   m_entityIDMap, m_componentFactory, playerVars>>

\* ------------------------------------------------------------ entity pool

\* EntityPool::create taking the free slot s: the slot holds a new entity
\* with a fresh ID and no components.
EntityPool_create(s) ==
    /\ m_pool' = [m_pool EXCEPT ![s] =
                     [inUse |-> TRUE, live |-> TRUE, id |-> nextID,
                      comps |-> [k \in Kinds |-> NullPtr]]]
    /\ nextID' = nextID + 1

\* EntityPool::destroy(e): the slot goes back to the free set and the
\* entity's components are destroyed with it; a slot that is already free is
\* left as it is.
EntityPool_destroy(e) ==
    IF m_pool[e].inUse
    THEN /\ m_pool' = [m_pool EXCEPT ![e] = FreeEntity(m_pool[e].id)]
         /\ m_componentFactory' =
                [k \in Kinds |-> m_componentFactory[k] \ {m_pool[e].comps[k]}]
    ELSE UNCHANGED <<m_pool, m_componentFactory>>

\* World::createEntity: e = m_entityPool->create(); m_entityIDMap[e->getID()]
\* = e; return e.  The result of create() is used unchecked: with no pool, or
\* with no free slot (create() has no entity to return), e->getID()
\* dereferences nullptr.
createEntity ==
    /\ Running
    /\ IF m_poolSize = 0 \/ FreeSlots = {}
       THEN Crash("createEntity", NullPtr, "")
       ELSE /\ nextID <= MaxCreates
            /\ \E s \in FreeSlots :
                  /\ EntityPool_create(s)
                  /\ m_entityIDMap' = MapPut(m_entityIDMap, nextID, s)
                  /\ Called("createEntity", NullPtr, "", s)
            /\ status' = status
            /\ UNCHANGED <<extVars, tick, lifeVars, physVars, netVars, m_poolSize,
                           m_componentFactory, playerVars>>

\* World::destroyEntity that erases the map entry and forgets the pool.
destroyEntity_KeepsSlot(e) ==
    /\ Running
    /\ m_entityIDMap' = MapErase(m_entityIDMap, m_pool[e].id)
    /\ status' = status
    /\ Called("destroyEntity", e, "", NullPtr)
    /\ UNCHANGED <<extVars, tick, lifeVars, physVars, netVars, poolVars,
                   m_componentFactory, playerVars>>

\* World::destroyEntity that erases the map entry keyed by the slot's index
\* in the pool instead of by the entity's ID.
destroyEntity_ErasesIndex(e) ==
    /\ Running
    /\ m_entityIDMap' = MapErase(m_entityIDMap, e)
    /\ EntityPool_destroy(e)
    /\ status' = status
    /\ Called("destroyEntity", e, "", NullPtr)
    /\ UNCHANGED <<extVars, tick, lifeVars, physVars, netVars, m_poolSize, nextID, playerVars>>

\* World::destroyEntity(e): m_entityIDMap.erase(e->getID()), then
\* m_entityPool->destroy(e).
destroyEntity(e) ==
    /\ Running
    /\ m_entityIDMap' = MapErase(m_entityIDMap, m_pool[e].id)
    /\ EntityPool_destroy(e)
    /\ status' = status
    /\ Called("destroyEntity", e, "", NullPtr)
    /\ UNCHANGED <<extVars, tick, lifeVars, physVars, netVars, m_poolSize, nextID, playerVars>>

\* World::getEntityPtr(id): the mapped entity, or nullptr.
getEntityPtr(id) ==
    IF id \in DOMAIN m_entityIDMap THEN m_entityIDMap[id] ELSE NullPtr

\* ------------------------------------------------------------- components

\* Entity::getComponent<K>: the component of kind k the entity holds.
getComponent(e, k) == m_pool[e].comps[k]

\* Components of the pool of kind k that ComponentFactory::create<K> can
\* hand out.
FreeComponents(k) == (1 .. CompPoolSize) \ m_componentFactory[k]

\* The component ComponentFactory::create<K> hands out: the first free one
\* of the pool of kind k.
FirstFree(k) == CHOOSE c \in FreeComponents(k) : \A d \in FreeComponents(k) : c <= d

\* ComponentFactory::create<K> handing out c.
ComponentFactory_create(k, c) ==
    m_componentFactory' = [m_componentFactory EXCEPT ![k] = @ \cup {c}]

\* Component::init(world): a physics component gets its rigid actor, a
\* scene component its scene node, both at the origin pose; an actor
\* component starts out not moving.
Component_init(k, c) ==
    /\ actorPose' = IF k = "Physics" THEN [actorPose EXCEPT ![c] = 0] ELSE actorPose
    /\ scenePose' = IF k = "Scene" THEN [scenePose EXCEPT ![c] = 0] ELSE scenePose
    /\ m_movingBackward' = IF k = "Actor" THEN [m_movingBackward EXCEPT ![c] = FALSE]
                           ELSE m_movingBackward

\* initComponent that inits the component and never attaches it.
initComponent_NoAttach(c, k, e) ==
    /\ Component_init(k, c)
    /\ m_pool' = m_pool

\* initComponent(component, entity, world): component->init(*world), then
\* entity->attachComponent(component).
initComponent(c, k, e) ==
    /\ Component_init(k, c)
    /\ m_pool' = [m_pool EXCEPT ![e].comps[k] = c]

\* initComponent with its two lines swapped.
InitComponentSteps_AttachFirst == <<"attach", "init">>

\* The two steps of initComponent, in the order of its lines.
InitComponentSteps == <<"init", "attach">>

\* World::attachComponent<K>(entity): c = factory->create<K>();
\* initComponent(c, entity, this); return c.  With the pool of kind K
\* exhausted there is no component to init: component->init dereferences
\* nullptr.
attachComponent(k, e) ==
    /\ Running
    /\ IF FreeComponents(k) = {}
       THEN Crash("attachComponent", e, k)
       ELSE /\ ComponentFactory_create(k, FirstFree(k))
            /\ initComponent(FirstFree(k), k, e)
            /\ steps' = <<"create">> \o InitComponentSteps
            /\ Called("attachComponent", e, k, FirstFree(k))
            /\ status' = status
            /\ UNCHANGED <<sysVars, scanned, lastUsePhysics, priorFlag, tick, lifeVars, physVars, netVars, m_poolSize, nextID,
                           m_entityIDMap, playerVars>>

\* World::setPlayer(player): m_player = player; m_mainCameraC =
\* player->getComponent<CameraComponent>(); m_hasPlayer = true.
setPlayer(e) ==
    /\ Running
    /\ m_player' = e
    /\ m_mainCameraC' = getComponent(e, "Camera")
    /\ m_hasPlayer' = TRUE
    /\ status' = status
    /\ Called("setPlayer", e, "", NullPtr)
    /\ UNCHANGED <<extVars, tick, lifeVars, physVars, netVars, poolVars,
                   m_entityIDMap, m_componentFactory>>

\* ----------------------------------------------------------------- systems

\* The components the PhysicsSystem requires of an entity.
PhysicsSystem_requires == {"Physics", "Scene"}

\* The entity e holds every component the PhysicsSystem requires.
HasRequired(e) == \A k \in PhysicsSystem_requires : m_pool[e].comps[k] # NullPtr

\* SystemManager::addEntity offered the entities `offered`: every registered
\* system starts tracking those that hold the components it requires.
SystemManager_addEntity(offered) ==
    m_entities' = IF m_systems
                  THEN m_entities \cup {e \in offered : HasRequired(e)}
                  ELSE m_entities

\* World::addSystem(system): m_systemManager->addSystem(system), here with
\* the PhysicsSystem.  Before World::init there is no system manager.
addSystem ==
    /\ Running
    /\ IF m_poolSize = 0
       THEN Crash("addSystem", NullPtr, "")
       ELSE /\ m_systems' = TRUE
            /\ status' = status
            /\ Called("addSystem", NullPtr, "", NullPtr)
            /\ UNCHANGED <<m_entities, poseVars, steps, scanned, lastUsePhysics, cmdVars,
                           tick, lifeVars, physVars, netVars, poolVars,
                           m_entityIDMap, m_componentFactory, playerVars>>

\* World::addEntityToSystem(entity): m_systemManager->addEntity(entity).
addEntityToSystem(e) ==
    /\ Running
    /\ IF m_poolSize = 0
       THEN Crash("addEntityToSystem", e, "")
       ELSE /\ SystemManager_addEntity({e})
            /\ status' = status
            /\ Called("addEntityToSystem", e, "", NullPtr)
            /\ UNCHANGED <<m_systems, poseVars, steps, scanned, lastUsePhysics, cmdVars,
                           tick, lifeVars, physVars, netVars, poolVars,
                           m_entityIDMap, m_componentFactory, playerVars>>

\* World::setupEntities: for every slot of the pool, live or free,
\* entity->setupComponents() and then m_systemManager->addEntity(entity).
setupEntities ==
    /\ Running
    /\ IF m_poolSize = 0
       THEN Crash("setupEntities", NullPtr, "")
       ELSE /\ SystemManager_addEntity(Slots)
            /\ status' = status
            /\ Called("setupEntities", NullPtr, "", NullPtr)
            /\ UNCHANGED <<m_systems, poseVars, steps, scanned, lastUsePhysics, cmdVars,
                           tick, lifeVars, physVars, netVars, poolVars,
                           m_entityIDMap, m_componentFactory, playerVars>>

\* ---------------------------------------------------------------- commands

\* Entity::getActorComponent: the actor component the entity holds.
getActorComponent(e) == m_pool[e].comps["Actor"]

\* ActorComponent::setMovingBackward(moving) on the actor component c.
setMovingBackward(c, moving) ==
    m_movingBackward' = [m_movingBackward EXCEPT ![c] = moving]

\* MoveBackwardCommand::execute(entity): the entity's actor component is
\* told to move backward.  With no actor component the call goes through
\* nullptr.
execute(e) ==
    /\ Running
    /\ IF getActorComponent(e) = NullPtr
       THEN Crash("execute", e, "")
       ELSE /\ setMovingBackward(getActorComponent(e), TRUE)
            /\ priorFlag' = {m_movingBackward[getActorComponent(e)]}
            /\ status' = status
            /\ Called("execute", e, "", NullPtr)
            /\ UNCHANGED <<sysVars, poseVars, steps, scanned, lastUsePhysics,
                           tick, lifeVars, physVars, netVars, poolVars,
                           m_entityIDMap, m_componentFactory, playerVars>>

\* Bookkeeping of an unexecute on e: it ends an execute / unexecute pair when
\* the call before it was an execute on the same entity.
PairedWith(e) ==
    IF call.op = "execute" /\ call.arg = e /\ Running THEN priorFlag ELSE {}

\* MoveBackwardCommand::unexecute that leaves the flag as it finds it.
unexecute_KeepsFlag(e) ==
    /\ Running
    /\ IF getActorComponent(e) = NullPtr
       THEN Crash("unexecute", e, "")
       ELSE /\ m_movingBackward' = m_movingBackward
            /\ priorFlag' = PairedWith(e)
            /\ status' = status
            /\ Called("unexecute", e, "", NullPtr)
            /\ UNCHANGED <<sysVars, poseVars, steps, scanned, lastUsePhysics,
                           tick, lifeVars, physVars, netVars, poolVars,
                           m_entityIDMap, m_componentFactory, playerVars>>

\* MoveBackwardCommand::unexecute(entity): the entity's actor component is
\* told to stop moving backward.
unexecute(e) ==
    /\ Running
    /\ IF getActorComponent(e) = NullPtr
       THEN Crash("unexecute", e, "")
       ELSE /\ setMovingBackward(getActorComponent(e), FALSE)
            /\ priorFlag' = PairedWith(e)
            /\ status' = status
            /\ Called("unexecute", e, "", NullPtr)
            /\ UNCHANGED <<sysVars, poseVars, steps, scanned, lastUsePhysics,
                           tick, lifeVars, physVars, netVars, poolVars,
                           m_entityIDMap, m_componentFactory, playerVars>>

\* ---------------------------------------------------------- specifications

\* The world's lifecycle and network role: every lifecycle and role call in
\* any order, with the entity calls a player needs (one entity, its camera).
Next ==
    \/ injectDependencies
    \/ \E usePhysics \in BOOLEAN : init(usePhysics)
    \/ destroy
    \/ resume
    \/ update
    \/ initServer
    \/ destroyServer
    \/ initClient
    \/ destroyClient
    \/ LiveSlots = {} /\ createEntity
    \/ \E e \in LiveSlots : getComponent(e, "Camera") = NullPtr /\ attachComponent("Camera", e)
    \/ \E e \in LiveSlots : setPlayer(e)

Spec == Init /\ [][Next]_vars

\* The lifecycle and role calls of a world whose injected server and client
\* are shared: another holder initializes and destroys them between the
\* world's calls.
NextShared ==
    \/ Next
    \/ \E role \in {ServerRole, ClientRole} : SharedInit(role)
    \/ \E role \in {ServerRole, ClientRole} : SharedDestroy(role)

SpecShared == Init /\ [][NextShared]_vars

\* An initialized world (one injectDependencies, one init) under entity
\* calls and World::destroy.  destroyEntity takes any handle into the pool,
\* also one whose slot is already free.
NextEntity ==
    \/ m_root = "nullptr" /\ injectDependencies
    \/ m_poolSize = 0 /\ \E usePhysics \in BOOLEAN : init(usePhysics)
    \/ createEntity
    \/ \E e \in Slots : destroyEntity(e)
    \/ destroy

SpecEntity == Init /\ [][NextEntity]_vars

\* Components allocated from the factory's pools, over all kinds.
Allocated == {<<k, c>> \in Kinds \X (1 .. CompPoolSize) : c \in m_componentFactory[k]}

\* An initialized world under entity and component calls: entities are
\* created and destroyed, and components of every kind are attached to live
\* entities, up to MaxAttach components allocated at a time, and once more
\* for a kind whose pool is exhausted.
NextComponent ==
    \/ m_root = "nullptr" /\ injectDependencies
    \/ m_poolSize = 0 /\ init(FALSE)
    \/ nextID <= PoolSize /\ createEntity
    \/ \E e \in LiveSlots : destroyEntity(e)
    \/ \E k \in Kinds : \E e \in LiveSlots :
          /\ Cardinality(Allocated) < MaxAttach \/ FreeComponents(k) = {}
          /\ attachComponent(k, e)

SpecComponent == Init /\ [][NextComponent]_vars

\* An initialized world without physics scene, with the PhysicsSystem: the
\* entity calls, the physics and scene components, the system calls, and
\* update.
NextSystem ==
    \/ m_root = "nullptr" /\ injectDependencies
    \/ m_poolSize = 0 /\ init(FALSE)
    \/ ~m_systems /\ addSystem
    \/ nextID <= PoolSize /\ createEntity
    \/ \E e \in LiveSlots : destroyEntity(e)
    \/ \E k \in PhysicsSystem_requires : \E e \in LiveSlots :
          getComponent(e, k) = NullPtr /\ attachComponent(k, e)
    \/ \E e \in LiveSlots : addEntityToSystem(e)
    \/ setupEntities
    \/ update

SpecSystem == Init /\ [][NextSystem]_vars

\* One physics-bearing entity in a world with physics: it gets its physics
\* and scene components, the PhysicsSystem tracks it, and update ticks move
\* its rigid actor.
NextPhysics ==
    \/ m_root = "nullptr" /\ injectDependencies
    \/ m_poolSize = 0 /\ init(TRUE)
    \/ ~m_systems /\ addSystem
    \/ LiveSlots = {} /\ nextID = 1 /\ createEntity
    \/ \E k \in PhysicsSystem_requires : \E e \in LiveSlots :
          getComponent(e, k) = NullPtr /\ attachComponent(k, e)
    \/ \E e \in LiveSlots : addEntityToSystem(e)
    \/ update

SpecPhysics == Init /\ [][NextPhysics]_vars

\* An initialized world whose entities get actor components and are the
\* targets of MoveBackwardCommand, in any order and any number of times.
NextCommand ==
    \/ m_root = "nullptr" /\ injectDependencies
    \/ m_poolSize = 0 /\ init(FALSE)
    \/ nextID <= PoolSize /\ createEntity
    \/ \E e \in LiveSlots : getActorComponent(e) = NullPtr /\ attachComponent("Actor", e)
    \/ \E e \in LiveSlots : execute(e)
    \/ \E e \in LiveSlots : unexecute(e)

SpecCommand == Init /\ [][NextCommand]_vars

\* ------------------------------------------------------------------ claims

\* Everything a refused call must leave alone.
WorldUnchanged ==
    UNCHANGED <<extVars, tick, lifeVars, physVars, netVars, poolVars,
                m_entityIDMap, m_componentFactory, playerVars>>

\* C1: whenever the active role reports initialized() == true, a call of
\* initServer or initClient is stopped by the fatal guard and changes
\* nothing: the role, the server and the client stay as they were (no init
\* runs on either), so a direct Server -> Client or Client -> Server switch
\* never takes effect.
C1_InitGuardRefuses ==
    [][ ( /\ Running
          /\ m_network # NetNullPtr
          /\ initialized(m_network)
          /\ call'.op \in {"initServer", "initClient"} )
        => ( status' = "aborted" /\ WorldUnchanged ) ]_vars

\* C1 witness: initClient was called with the server active and was refused.
C1_Witness ==
    /\ status = "aborted"
    /\ call.op = "initClient"
    /\ m_network = ServerRole
    /\ m_server.m_initialized
    /\ ~m_client.m_initialized

\* C2: from an initialized world whose role is Disabled, initServer,
\* destroyServer, initClient succeed one after the other: after initServer
\* the role is Server and initialized, after destroyServer it is Disabled
\* and nothing is initialized, after initClient it is Client and initialized.
C2_RoleRoundTrip ==
    /\ scenario = 1 =>
          Running /\ m_network = ServerRole /\ initialized(m_network)
    /\ scenario = 2 =>
          /\ Running /\ m_network = SNullNetwork /\ ~initialized(m_network)
          /\ ~m_server.m_initialized /\ ~m_client.m_initialized
    /\ scenario = 3 =>
          Running /\ m_network = ClientRole /\ initialized(m_network)

\* C2 witness: the three calls have been made and the client is active.
C2_Witness ==
    /\ scenario = 3
    /\ call.op = "initClient"
    /\ Running
    /\ m_network = ClientRole

\* At most one of server and client is initialized, and an initialized one
\* is the role m_network points at.
OneRoleInitialized ==
    /\ ~(m_server.m_initialized /\ m_client.m_initialized)
    /\ m_server.m_initialized => m_network = ServerRole
    /\ m_client.m_initialized => m_network = ClientRole

\* C3: in every state reached through init, initServer, initClient,
\* destroyServer, destroyClient and resume, at most one of server and client
\* is initialized, and the initialized one is the active role; a destroy call
\* tears down the role that was active, and Disabled is installed with
\* nothing left initialized.
C3_NoRoleOverlap ==
    /\ []OneRoleInitialized
    /\ [][ ( call'.op \in {"destroyServer", "destroyClient"} /\ status' = "running" )
           => ( /\ m_network' = SNullNetwork
                /\ ~m_server'.m_initialized /\ ~m_client'.m_initialized ) ]_vars

\* C3 witness: destroyServer has torn the server down and installed Disabled.
C3_Witness ==
    /\ call.op = "destroyServer"
    /\ scenario = 2
    /\ m_network = SNullNetwork
    /\ ~m_server.m_initialized
    /\ ~m_client.m_initialized

\* How often phase p occurs in the phase list t, and whether every p comes
\* before every q.
PhaseCount(t, p) == Cardinality({i \in 1 .. Len(t) : t[i] = p})
PhaseBefore(t, p, q) ==
    \A i, j \in 1 .. Len(t) : (t[i] = p /\ t[j] = q) => i < j

\* C4: every World::update runs network update, system-manager update,
\* per-entity update, physics step, environment update in that order, each
\* exactly once, the physics step if and only if physics is enabled
\* (m_usePhysics); the network update runs exactly once whichever role is
\* active.
C4_UpdateOrder ==
    [][ ( call'.op = "update" /\ status' = "running" )
        => ( /\ m_network \in {SNullNetwork, ServerRole, ClientRole}
             /\ \A p \in {"network", "systems", "entities", "environment"} :
                    PhaseCount(tick', p) = 1
             /\ PhaseCount(tick', "physics") = (IF m_usePhysics THEN 1 ELSE 0)
             /\ Len(tick') = (IF m_usePhysics THEN 5 ELSE 4)
             /\ PhaseBefore(tick', "network", "systems")
             /\ PhaseBefore(tick', "systems", "entities")
             /\ PhaseBefore(tick', "entities", "physics")
             /\ PhaseBefore(tick', "physics", "environment")
             /\ PhaseBefore(tick', "entities", "environment") ) ]_vars

\* C4 witness: a tick with the server active and physics on.
C4_Witness ==
    /\ call.op = "update"
    /\ Running
    /\ m_network = ServerRole
    /\ m_usePhysics
    /\ tick = <<"network", "systems", "entities", "physics", "environment">>

\* IDs an entity can carry within the bounds.
IDs == 1 .. (MaxCreates + 1)

\* C5: after any sequence of createEntity and destroyEntity calls on a pool
\* of capacity PoolSize, at most PoolSize entities are live and no two live
\* entities have the same ID.
C5_LiveBoundedUniqueIDs ==
    /\ Cardinality(LiveSlots) <= PoolSize
    /\ \A s, t \in LiveSlots : s # t => m_pool[s].id # m_pool[t].id

\* C5 witness: the pool is full of live entities with different IDs, after
\* at least one slot has been recycled.
C5_Witness ==
    /\ Running
    /\ m_poolSize = PoolSize
    /\ LiveSlots = Slots
    /\ nextID > PoolSize + 1
    /\ \E s, t \in LiveSlots : m_pool[s].id # m_pool[t].id

\* C6: with every slot of the pool live, createEntity reports the failure to
\* its caller (the process keeps running and the call returns no entity) and
\* leaves the pool and the ID map unchanged.
C6_CreateOnFullPoolReportsFailure ==
    [][ ( /\ Running
          /\ m_poolSize > 0
          /\ LiveSlots = Slots
          /\ call'.op = "createEntity" )
        => ( /\ status' = "running"
             /\ call'.ret = NullPtr
             /\ UNCHANGED <<poolVars, m_entityIDMap>> ) ]_vars

\* C7: with a full pool, destroying a live entity and then creating one
\* succeeds; the new entity is in the slot just freed, and its ID differs
\* from the destroyed entity's ID and from every live entity's ID.
C7_RecycleAfterDestroy ==
    [][ ( /\ Running
          /\ call.op = "destroyEntity"
          /\ call.argState = "live"
          /\ Slots \ {call.arg} \subseteq LiveSlots
          /\ call'.op = "createEntity" )
        => ( /\ status' = "running"
             /\ call'.ret = call.arg
             /\ m_pool'[call.arg].live
             /\ m_pool'[call.arg].id # m_pool[call.arg].id
             /\ \A t \in LiveSlots : m_pool'[call.arg].id # m_pool[t].id
             /\ m_pool'[call.arg].id \in DOMAIN m_entityIDMap'
             /\ m_entityIDMap'[m_pool'[call.arg].id] = call.arg ) ]_vars

\* C7 witness: the pool was filled with entities 1 .. PoolSize, the last of
\* them was destroyed, and the create that followed filled the pool again
\* with entity PoolSize + 1.
C7_Witness ==
    /\ Running
    /\ call.op = "createEntity"
    /\ m_poolSize = PoolSize
    /\ LiveSlots = Slots
    /\ nextID = PoolSize + 2
    /\ m_pool[call.ret].id = PoolSize + 1
    /\ {m_pool[s].id : s \in LiveSlots} = (1 .. PoolSize + 1) \ {PoolSize}

\* The live entity with the given ID, or nullptr.
LiveEntityWithID(id) ==
    IF \E s \in LiveSlots : m_pool[s].id = id
    THEN CHOOSE s \in LiveSlots : m_pool[s].id = id
    ELSE NullPtr

\* C8: in every state reached by createEntity, destroyEntity and
\* World::destroy, getEntityPtr(id) is the live entity with that ID, and
\* nullptr for every other ID; no lookup resolves to a free slot.
C8_MapAgreesWithPool ==
    /\ \A id \in IDs \cup DOMAIN m_entityIDMap :
           getEntityPtr(id) = LiveEntityWithID(id)
    /\ \A id \in DOMAIN m_entityIDMap : m_entityIDMap[id] \notin FreeSlots

\* C8 witness: a world with an entry for a live entity and none for an
\* entity that was destroyed.
C8_Witness ==
    /\ Running
    /\ call.op = "destroyEntity"
    /\ \E s \in LiveSlots : getEntityPtr(m_pool[s].id) = s
    /\ \E s \in FreeSlots : m_pool[s].id # NoID /\ getEntityPtr(m_pool[s].id) = NullPtr

\* C9: destroyEntity on a handle whose slot is already free changes nothing:
\* the pool (live entities, free slots), the ID map and the components stay
\* as they are.
C9_DestroyFreeSlotIsNoOp ==
    [][ ( /\ Running
          /\ call'.op = "destroyEntity"
          /\ call'.argState = "free"
          /\ call'.arg \in FreeSlots )
        => ( /\ status' = "running"
             /\ UNCHANGED <<poolVars, m_entityIDMap, m_componentFactory>> ) ]_vars

\* C9 witness: destroyEntity was called a second time on a destroyed entity
\* while another entity was live and kept its map entry.
C9_Witness ==
    /\ Running
    /\ call.op = "destroyEntity"
    /\ call.argState = "free"
    /\ call.arg \in FreeSlots
    /\ m_pool[call.arg].id # NoID
    /\ \E s \in LiveSlots : getEntityPtr(m_pool[s].id) = s

\* C10: the component attachComponent<K>(E) returns is the one a following
\* query of E for K returns; once E is destroyed, a query of E for K no
\* longer yields the component E held.
C10_AttachThenQuery ==
    [][ /\ ( call'.op = "attachComponent" /\ status' = "running" )
           => ( /\ call'.ret # NullPtr
                /\ m_pool'[call'.arg].comps[call'.kind] = call'.ret )
        /\ ( call'.op = "destroyEntity" /\ status' = "running" )
           => \A k \in Kinds :
                 getComponent(call'.arg, k) # NullPtr
                    => m_pool'[call'.arg].comps[k] # getComponent(call'.arg, k) ]_vars

\* C10 witness: an entity holding a scene component has just been given a
\* physics component, and the query returns it.
C10_Witness ==
    /\ Running
    /\ call.op = "attachComponent"
    /\ call.kind = "Physics"
    /\ getComponent(call.arg, "Physics") = call.ret
    /\ getComponent(call.arg, "Scene") # NullPtr

\* C11: at the start of every system-manager update the PhysicsSystem, which
\* requires the physics and the scene component, tracks exactly the live
\* entities that hold both, whatever calls of createEntity, attachComponent,
\* setupEntities, addEntityToSystem and destroyEntity came before.
C11_TracksExactlyTheQualifying ==
    [][ ( call'.op = "update" /\ m_systems )
           => m_entities = {e \in LiveSlots : HasRequired(e)} ]_vars

\* C12: when an update tick with physics enabled finishes, the scene
\* component of every entity the PhysicsSystem tracks holds the pose the
\* physics engine reports for the entity's rigid actor after that tick's
\* simulate step.
C12_ScenePoseIsThisTicksPose ==
    [][ ( call'.op = "update" /\ status' = "running" /\ m_usePhysics /\ m_systems )
           => \A e \in m_entities :
                 scenePose'[m_pool[e].comps["Scene"]]
                    = actorPose'[m_pool[e].comps["Physics"]] ]_vars

\* C13: setPlayer with an entity that holds no camera component is not
\* silently accepted: the world is never left running with the has-player
\* flag set and a null main camera.
C13_NoPlayerWithoutCamera ==
    ~( Running /\ m_hasPlayer /\ m_mainCameraC = NullPtr )

\* C14: attachComponent<K>(E) on an exhausted pool of kind K reports the
\* failure to its caller (the call returns, with no component), runs no init
\* step and leaves E's components as they were.
C14_AttachOnExhaustedPoolReportsFailure ==
    [][ ( call'.op = "attachComponent" /\ FreeComponents(call'.kind) = {} )
           => ( /\ status' = "running"
                /\ call'.ret = NullPtr
                /\ UNCHANGED <<steps, poseVars, m_pool, m_componentFactory>> ) ]_vars

\* C15: after any sequence of attachComponent calls every component
\* allocated from the pool of a kind is attached to exactly one entity (an
\* entity holds one component per kind at most, so no allocated component is
\* left unreferenced by a second attachComponent<K> on the same entity).
C15_AllocatedIsAttachedOnce ==
    Running =>
        \A k \in Kinds : \A c \in m_componentFactory[k] :
            Cardinality({e \in Slots : m_pool[e].comps[k] = c}) = 1

\* C16: every attachComponent<K>(E) takes the component from the factory,
\* then inits it with the world, then attaches it to E, each step once and in
\* that order: the component is never attached before its init is done, and
\* when the call returns E holds the component the factory handed out.
C16_CreateInitAttach ==
    [][ ( call'.op = "attachComponent" /\ status' = "running" )
           => ( /\ PhaseCount(steps', "create") = 1
                /\ PhaseCount(steps', "init") = 1
                /\ PhaseCount(steps', "attach") = 1
                /\ PhaseBefore(steps', "create", "init")
                /\ PhaseBefore(steps', "init", "attach")
                /\ call'.ret \in m_componentFactory'[call'.kind]
                /\ call'.ret \notin m_componentFactory[call'.kind]
                /\ m_pool'[call'.arg].comps[call'.kind] = call'.ret ) ]_vars

\* C16 witness: a scene component has been created, inited and attached,
\* and its entity holds it.
C16_Witness ==
    /\ Running
    /\ call.op = "attachComponent"
    /\ call.kind = "Scene"
    /\ steps = <<"create", "init", "attach">>
    /\ getComponent(call.arg, "Scene") = call.ret

\* C17: when an entity the PhysicsSystem tracks has been destroyed with
\* destroyEntity, the next system update reads none of its components: the
\* update goes through and the system has dropped the entity.
C17_DestroyedEntityIsDropped ==
    [][ ( /\ call'.op = "update"
          /\ m_systems
          /\ \E e \in m_entities : ~m_pool[e].live )
           => ( /\ status' = "running"
                /\ \A e \in m_entities : ~m_pool[e].live => e \notin m_entities' ) ]_vars

\* C18: the per-entity phase of an update calls Entity::update exactly once
\* on every slot that holds a live entity and on no free slot.
C18_ScanUpdatesLiveSlotsOnly ==
    [][ ( call'.op = "update" /\ status' = "running" )
           => \A s \in Slots :
                 PhaseCount(scanned', s) = IF m_pool[s].live THEN 1 ELSE 0 ]_vars

\* C19: in an initialized world the usePhysics argument of the most recent
\* init decides the physics step: an update runs it if and only if that
\* argument was true, and neither update nor destroy touches a physics scene
\* that an earlier destroy has destroyed (after init(true), destroy,
\* init(false) a tick runs no physics step).
C19_PhysicsFollowsLastInit ==
    [][ /\ ( call'.op = "update" /\ m_scene = "created" )
           => ( /\ status' = "running"
                /\ PhaseCount(tick', "physics") = (IF lastUsePhysics THEN 1 ELSE 0) )
        /\ ( call'.op = "destroy" /\ m_scene = "created" )
           => ( /\ status' = "running"
                /\ lastUsePhysics = (m_PScene # m_PScene') ) ]_vars

\* C20: once World::init has run, the active network role is never unset.
\* init makes it the server if the injected server is initialized, else the
\* client if the injected client is initialized, else the disabled role;
\* after resume an active role that does not report initialized() has been
\* replaced by the disabled role; and after init and every later call
\* update has a role to call.
C20_RoleNeverUnset ==
    [][ /\ ( call'.op = "init" /\ status' = "running" )
           => m_network' = ( IF m_server.m_initialized THEN ServerRole
                             ELSE IF m_client.m_initialized THEN ClientRole
                             ELSE SNullNetwork )
        /\ ( call'.op = "resume" /\ status' = "running" )
           => ( /\ m_network' = ServerRole => m_server'.m_initialized
                /\ m_network' = ClientRole => m_client'.m_initialized
                /\ m_network' # m_network => m_network' = SNullNetwork )
        /\ m_poolSize' > 0 => m_network' # NetNullPtr ]_vars

\* C20 witness: init has pointed m_network at the client, because the
\* injected client was initialized and the injected server was not.
C20_Witness ==
    /\ Running
    /\ call.op = "init"
    /\ m_network = ClientRole
    /\ m_client.m_initialized
    /\ ~m_server.m_initialized

\* C21: destroyServer tears down the server role only and destroyClient the
\* client role only: destroyServer called while the client is the active
\* role, and destroyClient called while the server is, leaves the active
\* role's connection state and the active role as they were.
C21_DestroyOnlyOwnRole ==
    [][ /\ ( call'.op = "destroyServer" /\ m_network = ClientRole )
           => ( m_network' = ClientRole /\ m_client' = m_client )
        /\ ( call'.op = "destroyClient" /\ m_network = ServerRole )
           => ( m_network' = ServerRole /\ m_server' = m_server ) ]_vars

\* What a command call on the entity e leaves alone: the entity and every
\* other entity of the pool, the component pools, the poses, and the flag
\* of every actor component but e's.
CommandFrame(e) ==
    /\ UNCHANGED <<m_pool, m_entityIDMap, m_componentFactory, poseVars, sysVars,
                   playerVars>>
    /\ \A c \in 1 .. CompPoolSize :
          c # getActorComponent(e) => m_movingBackward'[c] = m_movingBackward[c]

\* An unexecute on an entity directly after an execute on the same entity.
RoundTrip ==
    /\ call.op = "execute" /\ status = "running"
    /\ call'.op = "unexecute" /\ status' = "running"
    /\ call'.arg = call.arg

\* C22 as stated: execute followed by unexecute on the same entity leaves
\* the moving-backward flag of its actor at the value it had before execute,
\* for either prior value, and neither call changes other state of the
\* entity.
C22_UnexecuteRestoresPriorFlag ==
    [][ /\ RoundTrip => m_movingBackward'[getActorComponent(call.arg)] \in priorFlag
        /\ ( call'.op \in {"execute", "unexecute"} /\ status' = "running" )
           => CommandFrame(call'.arg) ]_vars

\* C22, amended: execute sets the moving-backward flag of the target's
\* actor and unexecute clears it, whatever it was; execute followed by
\* unexecute on the same entity therefore leaves the flag cleared, which is
\* the value it had before execute exactly when the actor was not moving
\* backward then; neither call changes other state of the entity.
C22_ExecuteSetsUnexecuteClears ==
    [][ /\ ( call'.op = "execute" /\ status' = "running" )
           => ( /\ m_movingBackward'[getActorComponent(call'.arg)]
                /\ CommandFrame(call'.arg) )
        /\ ( call'.op = "unexecute" /\ status' = "running" )
           => ( /\ ~m_movingBackward'[getActorComponent(call'.arg)]
                /\ CommandFrame(call'.arg) )
        /\ RoundTrip
           => ( /\ ~m_movingBackward'[getActorComponent(call.arg)]
                /\ ( m_movingBackward'[getActorComponent(call.arg)] \in priorFlag )
                      = ( priorFlag = {FALSE} ) ) ]_vars

\* C22 witness: an unexecute has ended a pair whose execute found the actor
\* already moving backward, and the flag is now cleared.
C22_Witness ==
    /\ Running
    /\ call.op = "unexecute"
    /\ priorFlag = {TRUE}
    /\ ~m_movingBackward[getActorComponent(call.arg)]

=============================================================================
